---- MODULE Spec2Model ----
(***************************************************************************)
(* NeuralNote Whisper transcription service (Scripts/whisper_service.py).  *)
(*                                                                         *)
(* The module-level globals whisper_pipeline and model_info, main() with   *)
(* initialize_model(), and the three Flask handlers health_check,          *)
(* transcribe_audio and get_model_info, served by a threaded listener.     *)
(*                                                                         *)
(* Python values are encoded as follows:                                   *)
(*   None            the empty tuple << >>; a present value x is <<x>>     *)
(*   dict            a function whose DOMAIN is the set of keys present    *)
(*   str (texts)     a sequence of one-character strings                   *)
(*   float seconds   an integer number of ticks                            *)
(***************************************************************************)
EXTENDS Integers, Sequences, FiniteSets, TLC

\* ------------------------------------------------------------------ bounds
NThreads == 2       \* request threads of the threaded listener
MaxSamples == 2     \* longest audio list a request carries
MaxChunks == 2      \* longest chunk list a model result carries
MaxTime == 1        \* largest timestamp (in ticks) a model result carries

\* ------------------------------------------------------- program constants
DefaultSampleRate == 16000
MaxNewTokens == 448

\* ------------------------------------------------------------ Python None
None == << >>
Some(x) == <<x>>

Threads == 1..NThreads

\* dict.get(key, default)
Get(d, k, default) == IF k \in DOMAIN d THEN d[k] ELSE default

\* -------------------------------------------------------------- the state
VARIABLES
    pc,                \* position of main(), or "imported" when the module is
                       \* only imported and a host serves `app`
    args,              \* parse_args() result (None when main() does not run)
    cuda,              \* torch.cuda.is_available()
    init,              \* locals of initialize_model while it runs
    inits,             \* number of calls of initialize_model so far
    exit_code,         \* None while the process lives, else sys.exit's code
    whisper_pipeline,  \* global, line 41
    model_info,        \* global, line 42
    th,                \* per request thread: the exchange it is handling
    reported           \* (model_id, sample_rate) pairs sent by /health, /info

vars == <<pc, args, cuda, init, inits, exit_code, whisper_pipeline,
          model_info, th, reported>>

\* ------------------------------------------------- initialize_model helpers
ModelIds == {"openai/whisper-large-v3-turbo", "distil-whisper/distil-small.en"}
Devices == {"auto", "cpu"}
SampleRates == {16000, 22050}

\* lines 53-54: the device the model is moved to
resolve_device(device, cuda_available) ==
    IF device = "auto"
    THEN (IF cuda_available THEN "cuda:0" ELSE "cpu")
    ELSE device

\* line 56
resolve_dtype(cuda_available) ==
    IF cuda_available THEN "torch.float16" ELSE "torch.float32"

\* lines 83-91: the pipeline object bound to the global
build_pipeline(model_id, device, dtype) ==
    Some([model |-> model_id, device |-> device, torch_dtype |-> dtype,
          return_timestamps |-> "word"])

\* lines 93-98
build_model_info(model_id, device, dtype, sampling_rate) ==
    [model_id |-> model_id, device |-> device, dtype |-> dtype,
     sample_rate |-> sampling_rate]

\* mutant: main() logs the failure and goes on to app.run
main_on_init_failure_continue == [pc |-> "run", exit_code |-> None]

\* lines 304-306: what main() does when initialize_model raised
main_on_init_failure == [pc |-> "exited", exit_code |-> Some(1)]

\* ---------------------------------------------------------- HTTP responses
Response(status, json) == [status |-> status, json |-> json]

\* line 110, 140, 204: the readiness test every handler starts with
not_initialized(wp) == wp = None

\* mutant: /health without the readiness test
health_check_unguarded(wp, mi) ==
    Response(200, [status |-> "healthy", model |-> mi])

\* lines 107-116
health_check(wp, mi) ==
    IF not_initialized(wp)
    THEN Response(503, [status |-> "error", message |-> "Model not initialized"])
    ELSE Response(200, [status |-> "healthy", model |-> mi])

\* mutant: /info reports the default sample rate, not the recorded one
get_model_info_default_rate(wp, mi) ==
    IF wp = None
    THEN Response(503, [error |-> "Model not initialized"])
    ELSE Response(200, [mi EXCEPT !["sample_rate"] = DefaultSampleRate])

\* lines 201-207
get_model_info(wp, mi) ==
    IF not_initialized(wp)
    THEN Response(503, [error |-> "Model not initialized"])
    ELSE Response(200, mi)

\* ------------------------------------------------------- /transcribe bodies
\* A request body is  [kind, d, has]:
\*   kind = "invalid"  not parseable as JSON, or not sent as JSON
\*   kind = "null"     the JSON value null (a number or a boolean behaves alike)
\*   kind = "array"    a JSON array (a JSON string behaves alike); `has` tells
\*                     whether "audio" is one of its elements
\*   kind = "dict"     a JSON object; d is the dict
Body(kind, d, has) == [kind |-> kind, d |-> d, has |-> has]

\* JSON null as the value of an optional string field
JsonNull == "<null>"

\* A JSON value of the audio field is [t, n]:
\*   "numlist"   a list of n numbers            "nulllist"  a list of n nulls
\*   "number"    a single number                "null"      null
\*   "strlist"   a list of n non-numeric strings
\*   "object"    a JSON object
Audio(t, n) == [t |-> t, n |-> n]

\* line 144: request.get_json(); a body that is not JSON makes it raise
\* (BadRequest / UnsupportedMediaType, both Exceptions).  A Flask that
\* returns None for a body not sent as JSON fails at line 146 instead, inside
\* the same try block.
get_json(body) ==
    IF body.kind = "invalid"
    THEN [raised |-> TRUE, data |-> body]
    ELSE [raised |-> FALSE, data |-> body]

\* line 146: can `'audio' in data` be evaluated at all (None is not iterable)
in_raises(data) == data.kind = "null"

\* mutant: only an empty body counts as missing the audio (`if not data`)
missing_audio_only_empty(data) ==
    IF data.kind = "dict" THEN DOMAIN data.d = {} ELSE ~data.has

\* line 146: the value of `'audio' not in data`
missing_audio(data) ==
    IF data.kind = "dict" THEN "audio" \notin DOMAIN data.d ELSE ~data.has

\* line 149: np.array(data['audio'], dtype=np.float32)
np_array(a) ==
    CASE a.t = "numlist"  -> [raised |-> FALSE, ndim |-> 1, len |-> a.n]
      [] a.t = "nulllist" -> [raised |-> FALSE, ndim |-> 1, len |-> a.n]
      [] a.t = "number"   -> [raised |-> FALSE, ndim |-> 0, len |-> 0]
      [] a.t = "null"     -> [raised |-> FALSE, ndim |-> 0, len |-> 0]
      [] a.t = "strlist"  -> IF a.n = 0
                             THEN [raised |-> FALSE, ndim |-> 1, len |-> 0]
                             ELSE [raised |-> TRUE, ndim |-> 0, len |-> 0]
      [] OTHER            -> [raised |-> TRUE, ndim |-> 0, len |-> 0]

\* lines 152-154: is the mismatch warning logged
sample_rate_warning(d, expected_sr) ==
    "sample_rate" \in DOMAIN d /\ d["sample_rate"] # expected_sr

\* Python truthiness of a JSON string-or-null value
truthy(v) == v \notin {"", JsonNull}

\* mutant: a request without a language gets the default "en"
generate_kwargs_default_language(d) ==
    [max_new_tokens |-> MaxNewTokens,
     task |-> Get(d, "task", "transcribe"),
     return_timestamps |-> "word",
     language |-> Get(d, "language", "en")]

\* lines 157-165
generate_kwargs(d) ==
    LET base == [max_new_tokens |-> MaxNewTokens,
                 task |-> Get(d, "task", "transcribe"),
                 return_timestamps |-> "word"]
    IN  IF "language" \in DOMAIN d /\ truthy(d["language"])
        THEN [k \in DOMAIN base \cup {"language"} |->
                 IF k = "language" THEN d["language"] ELSE base[k]]
        ELSE base

\* mutant: the except clause answers an empty success
transcribe_except_swallow(message) ==
    Response(200, [text |-> << >>, words |-> << >>])

\* lines 196-198: the handler's except clause
transcribe_except(message) == Response(500, [error |-> message])

\* lines 140-173: transcribe_audio up to the call of the pipeline.
\* data['audio'] (line 149) raises TypeError on a list or a string and
\* KeyError on a dict without the key.
\* resp is the response when the handler returns before the call; call is
\* the pipeline call's arguments when it is reached.
transcribe_request(wp, mi, body) ==
    LET out(resp, call, warned) ==
            [resp |-> resp, call |-> call, warned |-> warned]
        fail(message, warned) == out(Some(transcribe_except(message)), None, warned)
        j == get_json(body)
        data == j.data
        arr == np_array(data.d["audio"])
        expected_sr == Get(mi, "sample_rate", DefaultSampleRate)
        warned == sample_rate_warning(data.d, expected_sr)
    IN  IF not_initialized(wp)
        THEN out(Some(Response(503, [error |-> "Model not initialized"])), None, FALSE)
        ELSE IF j.raised THEN fail("BadRequest", FALSE)
        ELSE IF in_raises(data) THEN fail("TypeError: not iterable", FALSE)
        ELSE IF missing_audio(data)
        THEN out(Some(Response(400, [error |-> "Missing 'audio' field"])), None, FALSE)
        ELSE IF data.kind # "dict" THEN fail("TypeError: indices", FALSE)
        ELSE IF "audio" \notin DOMAIN data.d THEN fail("KeyError: 'audio'", FALSE)
        ELSE IF arr.raised THEN fail("ValueError: could not convert", FALSE)
        ELSE IF arr.ndim = 0 THEN fail("TypeError: len() of unsized object", warned)
        ELSE out(None,
                 Some([array |-> data.d["audio"], len |-> arr.len,
                       sampling_rate |-> expected_sr,
                       generate_kwargs |-> generate_kwargs(data.d)]),
                 warned)

\* ------------------------------------------------------------ model results
\* A chunk is a dict with keys among "text" and "timestamp".  A timestamp is
\* None or a pair <<start, end>> whose bounds are None or Some(ticks).

\* str.strip(): drop leading and trailing blanks
RECURSIVE lstrip(_)
lstrip(s) == IF s # << >> /\ Head(s) = " " THEN lstrip(Tail(s)) ELSE s

RECURSIVE rstrip(_)
rstrip(s) ==
    IF s # << >> /\ s[Len(s)] = " " THEN rstrip(SubSeq(s, 1, Len(s) - 1)) ELSE s

strip(s) == rstrip(lstrip(s))

\* line 179: does the chunk carry a time pair
has_timestamp(chunk) ==
    "timestamp" \in DOMAIN chunk /\ chunk["timestamp"] # None

\* lines 183-184: float(t) if t is not None else 0.0
time_or_zero(t) == IF t # None THEN t[1] ELSE 0

\* lines 180-186: the word appended for a chunk that has a time pair
word_of(chunk) ==
    [text |-> strip(chunk["text"]),
     start |-> time_or_zero(chunk["timestamp"][1]),
     end |-> time_or_zero(chunk["timestamp"][2]),
     confidence |-> 1]

\* line 182: chunk['text'] of a chunk without that key raises KeyError
word_raises(chunk) == has_timestamp(chunk) /\ "text" \notin DOMAIN chunk

\* mutant: each word is inserted at the front of the list
RECURSIVE extract_words_prepend(_)
extract_words_prepend(chunks) ==
    IF chunks = << >> THEN << >>
    ELSE IF has_timestamp(Head(chunks))
         THEN extract_words_prepend(Tail(chunks)) \o <<word_of(Head(chunks))>>
         ELSE extract_words_prepend(Tail(chunks))

\* lines 176-186: the loop over result['chunks'], in list order
RECURSIVE extract_words(_)
extract_words(chunks) ==
    IF chunks = << >> THEN << >>
    ELSE IF has_timestamp(Head(chunks))
         THEN <<word_of(Head(chunks))>> \o extract_words(Tail(chunks))
         ELSE extract_words(Tail(chunks))

\* lines 175-194: transcribe_audio after the pipeline returned `result`
transcribe_response(result) ==
    LET chunks == Get(result, "chunks", << >>)
    IN  IF \E i \in 1..Len(chunks) : word_raises(chunks[i])
        THEN transcribe_except("KeyError: 'text'")
        ELSE Response(200, [text |-> Get(result, "text", << >>),
                            words |-> extract_words(chunks)])

\* ------------------------------------------------------------------ inputs
\* An optional field: None when the key is absent, Some(v) when present
Opt(V) == {None} \cup {Some(v) : v \in V}

\* the dict with exactly the keys whose field is present
MkDict(fields) ==
    [k \in {f \in DOMAIN fields : fields[f] # None} |-> fields[k][1]]

ArgSet == [model : ModelIds, device : Devices, list_models : BOOLEAN]

AudioValues ==
    {Audio("numlist", n) : n \in 0..MaxSamples}
      \cup {Audio("nulllist", 1), Audio("number", 0), Audio("null", 0),
            Audio("strlist", 1), Audio("object", 0)}

Languages == {"", JsonNull, "en", "fr"}
Tasks == {"transcribe", "translate"}

DictBodies ==
    {Body("dict", MkDict([audio |-> au, sample_rate |-> sr,
                          language |-> la, task |-> ta]), FALSE) :
        au \in Opt(AudioValues), sr \in Opt(SampleRates),
        la \in Opt(Languages), ta \in Opt(Tasks)}

\* every body a single request is tried with
RichBodies ==
    DictBodies \cup {Body("invalid", << >>, FALSE), Body("null", << >>, FALSE),
                     Body("array", << >>, FALSE), Body("array", << >>, TRUE)}

\* the bodies concurrent requests are tried with
Bodies ==
    {Body("invalid", << >>, FALSE),
     Body("dict", << >>, FALSE),
     Body("dict", [audio |-> Audio("numlist", 0)], FALSE),
     Body("dict", [audio |-> Audio("numlist", 1)], FALSE),
     Body("dict", [audio |-> Audio("numlist", 1), language |-> "en"], FALSE)}

Texts == {<<" ", "a">>, <<"b", " ">>}
OptTimes == Opt(0..MaxTime)
Timestamps == {None} \cup (OptTimes \X OptTimes)

ChunkSet ==
    {MkDict([text |-> tx, timestamp |-> ts]) :
        tx \in Opt(Texts), ts \in Opt(Timestamps)}

ChunkLists == UNION {[1..n -> ChunkSet] : n \in 0..MaxChunks}

\* every result the word extraction is tried with
RichResults == {[text |-> <<"a", " ", "b">>, chunks |-> cs] : cs \in ChunkLists}

\* the results concurrent requests are tried with
Results ==
    {MkDict([text |-> None, chunks |-> None]),
     [text |-> <<"a", " ", "b">>,
      chunks |-> <<[text |-> <<" ", "a">>, timestamp |-> <<Some(0), Some(1)>>],
                   [text |-> <<"b", " ">>, timestamp |-> None]>>]}

\* --------------------------------------------------- the request threads
Idle ==
    [st |-> "idle", route |-> "", body |-> None, call |-> None, calls |-> 0,
     warned |-> FALSE, raised |-> FALSE, result |-> None, resp |-> None]

Done(route, body, resp) ==
    [Idle EXCEPT !.st = "done", !.route = route, !.body = body,
                 !.resp = Some(resp)]

\* the listener accepts requests: app.run is serving (line 312), or a host
\* that imported the module serves `app`
Listening == pc \in {"serving", "imported"}

\* a thread is free to take a request
Free(t) == th[t].st = "idle"

Lifecycle == <<pc, args, cuda, init, inits, exit_code>>
Globals == <<whisper_pipeline, model_info>>

\* the (model_id, sample_rate) pair a 200 response of /health or /info carries
ReportedBy(route, resp) ==
    LET info == IF route = "/health" THEN resp.json.model ELSE resp.json
    IN  IF resp.status = 200 /\ {"model_id", "sample_rate"} \subseteq DOMAIN info
        THEN {<<info.model_id, info.sample_rate>>}
        ELSE {}

\* GET /health
HandleHealth(t) ==
    /\ Listening /\ Free(t)
    /\ LET resp == health_check(whisper_pipeline, model_info)
       IN  /\ th' = [th EXCEPT ![t] = Done("/health", None, resp)]
           /\ reported' = reported \cup ReportedBy("/health", resp)
    /\ UNCHANGED <<Lifecycle, Globals>>

\* GET /info
HandleInfo(t) ==
    /\ Listening /\ Free(t)
    /\ LET resp == get_model_info(whisper_pipeline, model_info)
       IN  /\ th' = [th EXCEPT ![t] = Done("/info", None, resp)]
           /\ reported' = reported \cup ReportedBy("/info", resp)
    /\ UNCHANGED <<Lifecycle, Globals>>

\* POST /transcribe, up to its response or to the call of the pipeline
HandleTranscribe(t, body) ==
    /\ Listening /\ Free(t)
    /\ LET r == transcribe_request(whisper_pipeline, model_info, body)
       IN  th' = [th EXCEPT ![t] =
                    IF r.call = None
                    THEN [Done("/transcribe", Some(body), r.resp[1])
                            EXCEPT !.warned = r.warned]
                    ELSE [Idle EXCEPT !.st = "in_model",
                                      !.route = "/transcribe",
                                      !.body = Some(body), !.call = r.call,
                                      !.calls = 1, !.warned = r.warned]]
    /\ UNCHANGED <<Lifecycle, Globals, reported>>

\* the pipeline returns `result` (line 170); the handler answers
PipelineReturns(t, result) ==
    /\ th[t].st = "in_model"
    /\ th' = [th EXCEPT ![t].st = "done", ![t].result = Some(result),
                        ![t].resp = Some(transcribe_response(result))]
    /\ UNCHANGED <<Lifecycle, Globals, reported>>

\* the pipeline raises (line 170); the except clause answers
PipelineRaises(t) ==
    /\ th[t].st = "in_model"
    /\ th' = [th EXCEPT ![t].st = "done", ![t].raised = TRUE,
                        ![t].resp = Some(transcribe_except("RuntimeError"))]
    /\ UNCHANGED <<Lifecycle, Globals, reported>>

\* the response is sent and the thread is free again
SendResponse(t) ==
    /\ th[t].st = "done"
    /\ th' = [th EXCEPT ![t] = Idle]
    /\ UNCHANGED <<Lifecycle, Globals, reported>>

\* ------------------------------------------------------------------ main()
Requests == <<th, reported>>

\* lines 293-295: --list-models prints the catalog and exits
MainListModels ==
    /\ pc = "start" /\ args[1].list_models
    /\ pc' = "exited" /\ exit_code' = Some(0)
    /\ UNCHANGED <<args, cuda, init, inits, Globals, Requests>>

\* lines 303, 45-58: main() calls initialize_model, which resolves the
\* device and the dtype
InitializeModel ==
    /\ pc = "start" /\ ~args[1].list_models
    /\ pc' = "load_model"
    /\ inits' = inits + 1
    /\ init' = Some([device |-> resolve_device(args[1].device, cuda),
                     dtype |-> resolve_dtype(cuda),
                     sampling_rate |-> DefaultSampleRate])
    /\ UNCHANGED <<args, cuda, exit_code, Globals, Requests>>

\* lines 71-75: the weights are loaded and moved to the device
LoadModel ==
    /\ pc = "load_model"
    /\ pc' = "load_processor"
    /\ UNCHANGED <<args, cuda, init, inits, exit_code, Globals, Requests>>

\* line 81: the processor is loaded; it fixes the sampling rate
LoadProcessor(rate) ==
    /\ pc = "load_processor"
    /\ pc' = "build_pipeline"
    /\ init' = Some([init[1] EXCEPT !.sampling_rate = rate])
    /\ UNCHANGED <<args, cuda, inits, exit_code, Globals, Requests>>

\* lines 83-100: the pipeline is built and both globals are assigned
BuildPipeline ==
    /\ pc = "build_pipeline"
    /\ whisper_pipeline' =
           build_pipeline(args[1].model, init[1].device, init[1].dtype)
    /\ model_info' =
           build_model_info(args[1].model, init[1].device, init[1].dtype,
                            init[1].sampling_rate)
    /\ init' = None
    /\ pc' = "run"
    /\ UNCHANGED <<args, cuda, inits, exit_code, Requests>>

\* lines 102-104, 304-306: a step of the try block raises; initialize_model
\* re-raises and main() handles it
InitializeFails ==
    /\ pc \in {"load_model", "load_processor", "build_pipeline"}
    /\ pc' = main_on_init_failure.pc
    /\ exit_code' = (IF main_on_init_failure.pc = "exited"
                     THEN main_on_init_failure.exit_code ELSE exit_code)
    /\ init' = None
    /\ UNCHANGED <<args, cuda, inits, Globals, Requests>>

\* lines 309-317: app.run opens the threaded listener
AppRun ==
    /\ pc = "run"
    /\ pc' = "serving"
    /\ UNCHANGED <<args, cuda, init, inits, exit_code, Globals, Requests>>

Main ==
    \/ MainListModels
    \/ InitializeModel
    \/ LoadModel
    \/ \E rate \in SampleRates : LoadProcessor(rate)
    \/ BuildPipeline
    \/ InitializeFails
    \/ AppRun

\* ------------------------------------------------------------ specifications
\* The module is run as a script (line 320) or imported by a host that
\* serves `app` itself.
Init ==
    /\ pc \in {"start", "imported"}
    /\ IF pc = "start"
       THEN args \in {Some(a) : a \in ArgSet} /\ cuda \in BOOLEAN
       ELSE args = None /\ cuda = FALSE
    /\ init = None
    /\ inits = 0
    /\ exit_code = None
    /\ whisper_pipeline = None
    /\ model_info = << >>
    /\ th = [t \in Threads |-> Idle]
    /\ reported = {}

\* The service with concurrent request threads
Next ==
    \/ Main
    \/ \E t \in Threads : HandleHealth(t)
    \/ \E t \in Threads : HandleInfo(t)
    \/ \E t \in Threads, body \in Bodies : HandleTranscribe(t, body)
    \/ \E t \in Threads, result \in Results : PipelineReturns(t, result)
    \/ \E t \in Threads : PipelineRaises(t)
    \/ \E t \in Threads : SendResponse(t)

Spec == Init /\ [][Next]_vars

\* The service handling one request at a time, over every request body
NextRequest ==
    \/ Main
    \/ HandleHealth(1)
    \/ HandleInfo(1)
    \/ \E body \in RichBodies : HandleTranscribe(1, body)
    \/ \E result \in Results : PipelineReturns(1, result)
    \/ PipelineRaises(1)
    \/ SendResponse(1)

SpecRequest == Init /\ [][NextRequest]_vars

\* the request whose result is extracted
ExtractBody == Body("dict", [audio |-> Audio("numlist", 1)], FALSE)

\* The word extraction alone: a request is inside the pipeline call of a
\* ready service, and the pipeline returns any result
InitExtract ==
    /\ pc = "serving"
    /\ args = Some([model |-> "openai/whisper-large-v3-turbo",
                    device |-> "auto", list_models |-> FALSE])
    /\ cuda \in BOOLEAN
    /\ init = None
    /\ inits = 1
    /\ exit_code = None
    /\ whisper_pipeline =
           build_pipeline(args[1].model, resolve_device("auto", cuda),
                          resolve_dtype(cuda))
    /\ model_info =
           build_model_info(args[1].model, resolve_device("auto", cuda),
                            resolve_dtype(cuda), DefaultSampleRate)
    /\ th = [t \in Threads |->
               IF t = 1
               THEN [Idle EXCEPT
                       !.st = "in_model", !.route = "/transcribe",
                       !.body = Some(ExtractBody), !.calls = 1,
                       !.call = transcribe_request(whisper_pipeline,
                                                   model_info, ExtractBody).call]
               ELSE Idle]
    /\ reported = {}

NextExtract ==
    /\ th[1].st = "in_model"
    /\ \E result \in RichResults : PipelineReturns(1, result)

SpecExtract == InitExtract /\ [][NextExtract]_vars

\* ------------------------------------------------------------------ claims
Ready == whisper_pipeline # None

Answered(t) == th[t].st = "done"
Status(t) == th[t].resp[1].status
Invoked(t) == th[t].calls > 0

\* the dict of a /transcribe exchange whose body is a JSON object
IsDict(t) == th[t].body # None /\ th[t].body[1].kind = "dict"
Data(t) == th[t].body[1].d

\* C1: a request to /health, /transcribe or /info handled while
\* whisper_pipeline is unset is answered 503, whatever its body, and the
\* model is not invoked for it.
C1_UnavailableBeforeReady ==
    \A t \in Threads :
        (th[t].st # "idle" /\ ~Ready) =>
            Answered(t) /\ Status(t) = 503 /\ ~Invoked(t)

C1_Witness ==
    /\ ~Ready /\ Answered(1) /\ th[1].route = "/transcribe"
    /\ IsDict(1) /\ "audio" \in DOMAIN Data(1)
    /\ Data(1)["audio"] = Audio("numlist", 1)
    /\ Status(1) = 503

\* C2 as stated: every /transcribe request whose body lacks the audio field
\* is answered 400, whatever its other fields.
C2_MissingAudioIs400 ==
    \A t \in Threads :
        (Answered(t) /\ th[t].route = "/transcribe" /\ IsDict(t)
           /\ "audio" \notin DOMAIN Data(t)) => Status(t) = 400

\* C2 amended: every /transcribe request handled while the model is Ready
\* whose body is a JSON object lacking the audio field is answered 400,
\* whatever its other fields.
C2_MissingAudioIs400WhenReady ==
    \A t \in Threads :
        (Answered(t) /\ th[t].route = "/transcribe" /\ Ready /\ IsDict(t)
           /\ "audio" \notin DOMAIN Data(t)) =>
            (Status(t) = 400 /\ ~Invoked(t))

C2_Witness ==
    /\ Ready /\ Answered(1) /\ th[1].route = "/transcribe" /\ IsDict(1)
    /\ DOMAIN Data(1) = {"sample_rate", "language", "task"}
    /\ Status(1) = 400

\* C3: the globals are written at most once, no handler changes them, and
\* every 200 response of /health and /info reports the one model_id and
\* sample_rate that initialization recorded.
C3_StateWrittenOnce ==
    /\ [][(Ready \/ exit_code # None) => UNCHANGED Globals]_vars
    /\ [][th' # th => UNCHANGED Globals]_vars
    /\ [](reported \subseteq
            (IF Ready
             THEN {<<model_info.model_id, model_info.sample_rate>>}
             ELSE {}))

C3_Witness ==
    /\ Ready /\ model_info.sample_rate # DefaultSampleRate
    /\ Answered(1) /\ th[1].route = "/health" /\ Status(1) = 200
    /\ Answered(2) /\ th[2].route = "/info" /\ Status(2) = 200
    /\ Cardinality(reported) = 1

\* C4: at most one request is inside the pipeline call at any time.
C4_OneCallAtATime ==
    Cardinality({t \in Threads : th[t].st = "in_model"}) <= 1

\* C5: initialization runs at most once and is over before any request is
\* handled; when it fails the process exits with the listener never opened
\* and no request ever served.
C5_InitBeforeListening ==
    /\ [](\A t \in Threads : th[t].st # "idle" => (Listening /\ init = None))
    /\ [](inits <= 1)
    /\ [](pc = "serving" => (inits = 1 /\ Ready))
    /\ [](inits = 1 /\ ~Ready /\ init = None =>
            (pc = "exited" /\ exit_code = Some(1) /\ reported = {}
               /\ \A t \in Threads : th[t] = Idle))
    /\ [][pc = "exited" => pc' = "exited"]_vars

C5_Witness ==
    /\ pc = "exited" /\ exit_code = Some(1) /\ inits = 1 /\ ~Ready

\* C6: the model is invoked only for requests whose audio is a non-empty
\* list of numbers.
C6_InvokedOnlyOnValidAudio ==
    \A t \in Threads :
        Invoked(t) =>
            /\ IsDict(t) /\ "audio" \in DOMAIN Data(t)
            /\ Data(t)["audio"].t = "numlist" /\ Data(t)["audio"].n >= 1

\* C7: a request whose pipeline call raised is answered 500 with an error
\* message, the pipeline was called once for it, and the model stays Ready.
C7_InferenceErrorIs500 ==
    \A t \in Threads :
        th[t].raised =>
            /\ Answered(t) /\ Status(t) = 500
            /\ "error" \in DOMAIN th[t].resp[1].json
            /\ th[t].calls = 1
            /\ Ready

C7_Witness ==
    /\ th[1].raised /\ Status(1) = 500
    /\ Answered(2) /\ th[2].route = "/transcribe" /\ Status(2) = 200

\* the chunks of a thread's result, and the indices of those with a time pair
ChunksOf(t) == Get(th[t].result[1], "chunks", << >>)
Timed(cs) ==
    {i \in 1..Len(cs) : "timestamp" \in DOMAIN cs[i] /\ cs[i]["timestamp"] # None}
Rank(cs, i) == Cardinality({j \in Timed(cs) : j <= i})
WordsOf(t) == th[t].resp[1].json.words
Extracted(t) == Answered(t) /\ th[t].result # None /\ Status(t) = 200

\* C8: the words of a response are the result's chunks that carry a time
\* pair, each once and in chunk order; chunks without one never appear.
C8_WordsAreTimedChunksInOrder ==
    \A t \in Threads :
        Extracted(t) =>
            LET cs == ChunksOf(t)
                ws == WordsOf(t)
            IN  /\ Len(ws) = Cardinality(Timed(cs))
                /\ Len(ws) <= Len(cs)
                /\ \A i \in Timed(cs) :
                      LET w == ws[Rank(cs, i)]
                          ts == cs[i]["timestamp"]
                      IN  /\ w.text = strip(cs[i]["text"])
                          /\ w.start = (IF ts[1] = None THEN 0 ELSE ts[1][1])
                          /\ w.end = (IF ts[2] = None THEN 0 ELSE ts[2][1])

C8_Witness ==
    /\ Extracted(1) /\ Len(ChunksOf(1)) = 2 /\ Timed(ChunksOf(1)) = {2}
    /\ "timestamp" \in DOMAIN ChunksOf(1)[1]
    /\ WordsOf(1) = <<[text |-> <<"a">>, start |-> 0, end |-> 1,
                       confidence |-> 1]>>

\* C9: a word whose chunk gave both a start and an end has start <= end.
C9_StartBeforeEnd ==
    \A t \in Threads :
        Extracted(t) =>
            \A i \in Timed(ChunksOf(t)) :
                LET ts == ChunksOf(t)[i]["timestamp"]
                    w == WordsOf(t)[Rank(ChunksOf(t), i)]
                IN  (ts[1] # None /\ ts[2] # None) => w.start <= w.end

\* the generation kwargs a thread's pipeline call was given
Kwargs(t) == th[t].call[1].generate_kwargs

\* C10 as stated: the kwargs carry a language exactly when the request has a
\* language field, and then it is that field's value.
C10_LanguageIffSupplied ==
    \A t \in Threads :
        Invoked(t) =>
            /\ "language" \in DOMAIN Kwargs(t) <=> "language" \in DOMAIN Data(t)
            /\ "language" \in DOMAIN Kwargs(t) =>
                   Kwargs(t)["language"] = Data(t)["language"]

\* C10 amended: the kwargs carry a language exactly when the request has a
\* language field whose value is neither empty nor null, and then it is that
\* value.
C10_LanguageIffNonEmpty ==
    \A t \in Threads :
        Invoked(t) =>
            /\ "language" \in DOMAIN Kwargs(t) <=>
                   ("language" \in DOMAIN Data(t)
                      /\ Data(t)["language"] \notin {"", JsonNull})
            /\ "language" \in DOMAIN Kwargs(t) =>
                   Kwargs(t)["language"] = Data(t)["language"]

C10_Witness ==
    /\ Invoked(1) /\ "language" \in DOMAIN Data(1)
    /\ Data(1)["language"] = "fr" /\ Kwargs(1)["language"] = "fr"

====
